---- MODULE Spec2Model ----
(***************************************************************************)
(* Conversation tree engine of the chat client: the branch store           *)
(* (session.messages + session.messageForksHash), the cascading delete     *)
(* removeMessage of chatStore.ts, the insert / fork / switch / undo        *)
(* operations that produce the conversations it runs on, and the tree      *)
(* adapter sessionToConversationTree.                                      *)
(*                                                                         *)
(* A message is represented by its id (a positive integer; the code uses   *)
(* uuid strings, only ever compared for equality).  messageForksHash is a  *)
(* sequence of entries in key insertion order, which is the order          *)
(* Object.entries / Object.keys enumerate it; the value `undefined` and    *)
(* the empty object are both the empty sequence.  position is 0-based as   *)
(* in the code, sequences are 1-based.  session.threads is absent.         *)
(***************************************************************************)
EXTENDS Integers, Sequences, FiniteSets, TLC

\* ---------------------------------------------------------------- bounds
MaxMsgs == 5        \* message ids ever created in one behaviour
MaxLists == 4       \* branch-list ids ever created in one behaviour
MaxOps == 3         \* operations issued to the update queue in one behaviour
MaxRev == 1         \* cache-only content updates in one behaviour
MaxDrags == 1       \* node drags and auto layouts in one behaviour
MaxNewList == 2     \* length of the lists setSelectedModels is called with
MaxCorruptId == 3   \* message ids of the damaged conversations removeMessage is run on

VARIABLES
  messages,          \* session.messages: Seq(id)
  messageForksHash,  \* session.messageForksHash: Seq([key, position, lists])
  treeUndoState,     \* viewModeStore.treeUndoState: NoUndo or a snapshot
  nextId,            \* next fresh message id (uuidv4)
  nextListId,        \* next fresh branch-list id (uuidv4)
  last,              \* history: the last operation, its message-id argument
                     \* (and previousId) and the session it was applied to
  sessionUpdateQueue,\* sessionUpdateQueues[sessionId]: [loaded, state, rev, q]
  pendingCache,      \* results of set() whose _setSessionCache is still to run
  cacheRev,          \* content revision of the cached session (cache-only updates)
  issued,            \* history: the updaters passed to updateSessionWithMessages
  applied,           \* history: [updater, input, output] of every updater run
  sessionId,         \* session.id of the conversation the tree view shows
  otherSession,      \* the conversation not shown: [id, messages, messageForksHash]
  nodePositions,     \* viewModeStore.nodePositions[id of conversation 1]
  dragCount,         \* number of node drags and auto layouts so far
  currentNodes,      \* the view's ReactFlow nodes (useNodesState): id -> position
  pendingPositionSaveRef, \* pendingPositionSaveRef.current: positions waiting to be saved
  timeoutId,         \* the 0 ms timer of the effect on [tree, ...] is pending
  saveTimer,         \* the 100 ms timer of the effect on [tree.nodes.length, ...] is pending
  multiModelEnabled, \* multiModelStore.multiModelEnabled
  selectedModels     \* multiModelStore.selectedModels: Seq([provider, modelId])

storeVars == <<messages, messageForksHash, treeUndoState, nextId, nextListId, last>>
queueVars == <<sessionUpdateQueue, pendingCache, cacheRev, issued, applied>>
viewVars == <<sessionId, otherSession>>
layoutVars == <<nodePositions, dragCount>>
treeViewVars == <<currentNodes, pendingPositionSaveRef, timeoutId, saveTimer>>
modelVars == <<multiModelEnabled, selectedModels>>
vars == <<storeVars, queueVars, viewVars, layoutVars, treeViewVars, modelVars>>

\* what every operation on the shown conversation's branch store leaves alone
outsideStore == <<queueVars, viewVars, layoutVars, modelVars>>

NoUndo ==
  [present |-> FALSE, sessionId |-> 0, messagesSnapshot |-> <<>>,
   messageForksHashSnapshot |-> <<>>]

\* ------------------------------------------------------- sequence helpers
Range(s) == {s[i] : i \in 1..Len(s)}

\* Array.prototype.findIndex for "element = x", 0-based, -1 when absent
IndexOf(s, x) ==
  IF \E i \in 1..Len(s) : s[i] = x
    THEN (CHOOSE i \in 1..Len(s) : s[i] = x /\ \A j \in 1..(i-1) : s[j] # x) - 1
    ELSE -1

\* Array.prototype.slice(from, to) with 0-based half-open bounds
Slice(s, from, to) == [i \in 1..(to - from) |-> s[from + i]]

\* Array.prototype.filter(m => !idsToDelete.has(m.id))
RECURSIVE FilterOut(_, _)
FilterOut(s, ids) ==
  IF s = <<>> THEN <<>>
  ELSE IF Head(s) \in ids THEN FilterOut(Tail(s), ids)
       ELSE <<Head(s)>> \o FilterOut(Tail(s), ids)

\* --------------------------------------------------------- fork hash access
HasFork(hash, id) == \E i \in 1..Len(hash) : hash[i].key = id
ForkOf(hash, id) == hash[CHOOSE i \in 1..Len(hash) : hash[i].key = id]
ForkKeys(hash) == {hash[i].key : i \in 1..Len(hash)}

\* every message id stored in some branch list of some fork entry
ListsIds(lists) == UNION {Range(lists[j].messages) : j \in 1..Len(lists)}
BranchIds(hash) == UNION {ListsIds(hash[i].lists) : i \in 1..Len(hash)}

AllIds(msgs, hash) == Range(msgs) \cup BranchIds(hash)

Session == [messages |-> messages, messageForksHash |-> messageForksHash]

\* ======================================================================
\* chatStore.removeMessage: the cascading delete
\* ======================================================================

\* step 1.2: the (entry, list) pairs whose list holds messageId; the code's
\* nested loops stop at the first one in enumeration order
BranchHits(hash, messageId) ==
  UNION {{<<i, j>> : j \in {k \in 1..Len(hash[i].lists) :
                               messageId \in Range(hash[i].lists[k].messages)}} :
         i \in 1..Len(hash)}

FirstHit(hash, messageId) ==
  CHOOSE p \in BranchHits(hash, messageId) :
    \A q \in BranchHits(hash, messageId) :
      p[1] < q[1] \/ (p[1] = q[1] /\ p[2] <= q[2])

\* `found`
Found(session, messageId) ==
  \/ IndexOf(session.messages, messageId) >= 0
  \/ BranchHits(session.messageForksHash, messageId) # {}

\* step 1: the target and its linear downstream in the sequence holding it
LinearDownstream(session, messageId) ==
  LET mainMsgIndex == IndexOf(session.messages, messageId) IN
  IF mainMsgIndex >= 0
    THEN Range(Slice(session.messages, mainMsgIndex, Len(session.messages)))
  ELSE IF BranchHits(session.messageForksHash, messageId) # {}
    THEN LET hit == FirstHit(session.messageForksHash, messageId)
             branch == session.messageForksHash[hit[1]].lists[hit[2]].messages
         IN Range(Slice(branch, IndexOf(branch, messageId), Len(branch)))
  ELSE {}

\* step 2: the while (queue.length > 0) loop; markForDeletion enqueues an id
\* once, so the loop computes the least set closed under "all messages of
\* all branches of a marked fork point"
RECURSIVE CollectSubBranches(_, _)
CollectSubBranches(hash, marked) ==
  LET more == UNION {ListsIds(hash[i].lists) :
                       i \in {k \in 1..Len(hash) : hash[k].key \in marked}}
  IN IF more \subseteq marked THEN marked
     ELSE CollectSubBranches(hash, marked \cup more)

IdsToDelete(session, messageId) ==
  CollectSubBranches(session.messageForksHash, LinearDownstream(session, messageId))

\* step 3.A: delete newMessageForksHash[id] for every id in idsToDelete
RECURSIVE DeleteMarkedEntries(_, _)
DeleteMarkedEntries(hash, ids) ==
  IF hash = <<>> THEN <<>>
  ELSE IF Head(hash).key \in ids THEN DeleteMarkedEntries(Tail(hash), ids)
       ELSE <<Head(hash)>> \o DeleteMarkedEntries(Tail(hash), ids)

\* forkData.lists.map(branch => ({...branch, messages: filter}))
FilterLists(lists, ids) ==
  [j \in 1..Len(lists) |-> [lists[j] EXCEPT !.messages = FilterOut(lists[j].messages, ids)]]

\* NextValidBranchIndex with the index test inverted (idx === position)
NextValidBranchIndex_Inverted(newLists, position) ==
  LET ok == {j \in 1..Len(newLists) : j - 1 = position /\ newLists[j].messages # <<>>}
  IN IF ok = {} THEN -1 ELSE (CHOOSE j \in ok : \A k \in ok : j <= k) - 1

\* newLists.findIndex((list, idx) => idx !== position && list.messages.length > 0)
NextValidBranchIndex(newLists, position) ==
  LET ok == {j \in 1..Len(newLists) : j - 1 # position /\ newLists[j].messages # <<>>}
  IN IF ok = {} THEN -1 ELSE (CHOOSE j \in ok : \A k \in ok : j <= k) - 1

\* step 3.C: newLists.filter((list, idx) => list.messages.length > 0 || idx === newPosition)
RECURSIVE ValidListsFrom(_, _, _)
ValidListsFrom(newLists, newPosition, j) ==
  IF j > Len(newLists) THEN <<>>
  ELSE IF newLists[j].messages # <<>> \/ j - 1 = newPosition
         THEN <<newLists[j]>> \o ValidListsFrom(newLists, newPosition, j + 1)
         ELSE ValidListsFrom(newLists, newPosition, j + 1)

ValidLists(newLists, newPosition) == ValidListsFrom(newLists, newPosition, 1)

\* FinalPosition that keeps the array index instead of following the list id
FinalPosition_ByIndex(newLists, validLists, newPosition) ==
  IF newPosition + 1 \in 1..Len(validLists) THEN newPosition ELSE 0

\* validLists.findIndex(l => l.id === activeListId), then the fallbacks
FinalPosition(newLists, validLists, newPosition) ==
  LET byId == IF newPosition + 1 \in 1..Len(newLists)
                THEN {j \in 1..Len(validLists) : validLists[j].id = newLists[newPosition + 1].id}
                ELSE {}
      nonEmpty == {j \in 1..Len(validLists) : validLists[j].messages # <<>>}
  IN IF byId # {} THEN (CHOOSE j \in byId : \A k \in byId : j <= k) - 1
     ELSE IF nonEmpty # {} THEN (CHOOSE j \in nonEmpty : \A k \in nonEmpty : j <= k) - 1
     ELSE 0

\* CleanForkEntry with the promoted branch left in its list as well
CleanForkEntry_KeepPromoted(forkData, newMessages, ids) ==
  LET filtered == FilterLists(forkData.lists, ids)
      forkPointIndex == IndexOf(newMessages, forkData.key)
      activeBranchHasContent == forkPointIndex < Len(newMessages) - 1
      nextValidBranchIndex == NextValidBranchIndex(filtered, forkData.position)
      promote == ~activeBranchHasContent /\ nextValidBranchIndex >= 0
      newPosition == IF promote THEN nextValidBranchIndex ELSE forkData.position
      grown == IF promote
                 THEN newMessages \o filtered[nextValidBranchIndex + 1].messages
                 ELSE newMessages
      validLists == ValidLists(filtered, newPosition)
  IN IF forkPointIndex < 0
       THEN [newMessages |-> newMessages, keep |-> TRUE, entry |-> forkData]
     ELSE IF Len(validLists) = 0 \/ (Len(validLists) = 1 /\ validLists[1].messages = <<>>)
       THEN [newMessages |-> grown, keep |-> FALSE, entry |-> forkData]
     ELSE [newMessages |-> grown, keep |-> TRUE,
           entry |-> [key |-> forkData.key, lists |-> validLists,
                      position |-> FinalPosition(filtered, validLists, newPosition)]]

\* step 3.B/C for one forkId: the body of `for (const forkId of forkIds)`.
\* Result: the (possibly grown) newMessages, and the entry that stays in
\* newMessageForksHash under forkId (keep = FALSE: the key is deleted).
CleanForkEntry(forkData, newMessages, ids) ==
  LET filtered == FilterLists(forkData.lists, ids)
      forkPointIndex == IndexOf(newMessages, forkData.key)
      activeBranchHasContent == forkPointIndex < Len(newMessages) - 1
      nextValidBranchIndex == NextValidBranchIndex(filtered, forkData.position)
      promote == ~activeBranchHasContent /\ nextValidBranchIndex >= 0
      newLists == IF promote
                    THEN [filtered EXCEPT ![nextValidBranchIndex + 1].messages = <<>>]
                    ELSE filtered
      newPosition == IF promote THEN nextValidBranchIndex ELSE forkData.position
      grown == IF promote
                 THEN newMessages \o filtered[nextValidBranchIndex + 1].messages
                 ELSE newMessages
      validLists == ValidLists(newLists, newPosition)
  IN IF forkPointIndex < 0
       THEN [newMessages |-> newMessages, keep |-> TRUE, entry |-> forkData]
     ELSE IF Len(validLists) = 0 \/ (Len(validLists) = 1 /\ validLists[1].messages = <<>>)
       THEN [newMessages |-> grown, keep |-> FALSE, entry |-> forkData]
     ELSE [newMessages |-> grown, keep |-> TRUE,
           entry |-> [key |-> forkData.key, lists |-> validLists,
                      position |-> FinalPosition(newLists, validLists, newPosition)]]

\* CleanForks that returns the filtered list without the promoted branches
RECURSIVE CleanForks_LosePromoted(_, _, _)
CleanForks_LosePromoted(hash, newMessages, ids) ==
  IF hash = <<>> THEN [messages |-> newMessages, messageForksHash |-> <<>>]
  ELSE LET r == CleanForkEntry(Head(hash), newMessages, ids)
           rest == CleanForks_LosePromoted(Tail(hash), r.newMessages, ids)
       IN [messages |-> newMessages,
           messageForksHash |-> (IF r.keep THEN <<r.entry>> ELSE <<>>) \o rest.messageForksHash]

\* the loop over forkIds = Object.keys(newMessageForksHash), in key order,
\* with newMessages threaded through the iterations
RECURSIVE CleanForks(_, _, _)
CleanForks(hash, newMessages, ids) ==
  IF hash = <<>> THEN [messages |-> newMessages, messageForksHash |-> <<>>]
  ELSE LET r == CleanForkEntry(Head(hash), newMessages, ids)
           rest == CleanForks(Tail(hash), r.newMessages, ids)
       IN [messages |-> rest.messages,
           messageForksHash |-> (IF r.keep THEN <<r.entry>> ELSE <<>>) \o rest.messageForksHash]

\* the updater passed to updateSessionWithMessages by removeMessage
RemoveMessage(session, messageId) ==
  IF ~Found(session, messageId) THEN session
  ELSE LET ids == IdsToDelete(session, messageId)
       IN CleanForks(DeleteMarkedEntries(session.messageForksHash, ids),
                     FilterOut(session.messages, ids), ids)

\* ======================================================================
\* the other mutation operations
\* ======================================================================

None == 0   \* an absent previousId / an id that names no message

\* insertMessage that puts the message before previousId (slice at previousIndex)
InsertMessage_Before(session, message, previousId) ==
  LET previousIndex == IndexOf(session.messages, previousId) IN
  IF previousId # None /\ previousIndex >= 0
    THEN [session EXCEPT !.messages =
            Slice(session.messages, 0, previousIndex) \o <<message>>
              \o Slice(session.messages, previousIndex, Len(session.messages))]
    ELSE [session EXCEPT !.messages = session.messages \o <<message>>]

\* the updater of chatStore.insertMessage (session.threads is absent)
InsertMessage(session, message, previousId) ==
  LET previousIndex == IndexOf(session.messages, previousId) IN
  IF previousId # None /\ previousIndex >= 0
    THEN [session EXCEPT !.messages =
            Slice(session.messages, 0, previousIndex + 1) \o <<message>>
              \o Slice(session.messages, previousIndex + 1, Len(session.messages))]
    ELSE [session EXCEPT !.messages = session.messages \o <<message>>]

\* createFork(atMessageId): the tail of primarySequence after the fork point
\* becomes a stored branch, a new empty branch becomes the active one
CanCreateFork(session, forkMessageId) ==
  /\ IndexOf(session.messages, forkMessageId) >= 0
  /\ IndexOf(session.messages, forkMessageId) < Len(session.messages) - 1

CreateNewFork(session, forkMessageId, storedListId, newListId) ==
  LET idx == IndexOf(session.messages, forkMessageId)
      tail == Slice(session.messages, idx + 1, Len(session.messages))
      hash == session.messageForksHash
      fresh == [id |-> newListId, messages |-> <<>>]
  IN IF ~CanCreateFork(session, forkMessageId) THEN session
     ELSE [messages |-> Slice(session.messages, 0, idx + 1),
           messageForksHash |->
             IF HasFork(hash, forkMessageId)
               THEN [i \in 1..Len(hash) |->
                      IF hash[i].key # forkMessageId THEN hash[i]
                      ELSE [key |-> hash[i].key,
                            lists |-> [hash[i].lists EXCEPT ![hash[i].position + 1].messages = tail]
                                        \o <<fresh>>,
                            position |-> Len(hash[i].lists)]]
               ELSE hash \o <<[key |-> forkMessageId,
                                lists |-> <<[id |-> storedListId, messages |-> tail], fresh>>,
                                position |-> 1]>>]

\* switchFork(atMessageId, direction): cyclic move of activeIndex
CanSwitchFork(session, forkMessageId) ==
  /\ IndexOf(session.messages, forkMessageId) >= 0
  /\ HasFork(session.messageForksHash, forkMessageId)
  /\ Len(ForkOf(session.messageForksHash, forkMessageId).lists) >= 2

\* switchFork that overwrites primarySequence without storing its former tail
SwitchFork_DropTail(session, forkMessageId, direction) ==
  IF ~CanSwitchFork(session, forkMessageId) THEN session
  ELSE LET idx == IndexOf(session.messages, forkMessageId)
           hash == session.messageForksHash
           e == ForkOf(hash, forkMessageId)
           total == Len(e.lists)
           newPosition == IF direction = "next" THEN (e.position + 1) % total
                          ELSE (e.position - 1 + total) % total
       IN [messages |-> Slice(session.messages, 0, idx + 1) \o e.lists[newPosition + 1].messages,
           messageForksHash |->
             [i \in 1..Len(hash) |->
                IF hash[i].key # forkMessageId THEN hash[i]
                ELSE [key |-> e.key,
                      lists |-> [e.lists EXCEPT ![newPosition + 1].messages = <<>>],
                      position |-> newPosition]]]

SwitchFork(session, forkMessageId, direction) ==
  IF ~CanSwitchFork(session, forkMessageId) THEN session
  ELSE LET idx == IndexOf(session.messages, forkMessageId)
           tail == Slice(session.messages, idx + 1, Len(session.messages))
           hash == session.messageForksHash
           e == ForkOf(hash, forkMessageId)
           total == Len(e.lists)
           newPosition == IF direction = "next" THEN (e.position + 1) % total
                          ELSE (e.position - 1 + total) % total
       IN [messages |-> Slice(session.messages, 0, idx + 1) \o e.lists[newPosition + 1].messages,
           messageForksHash |->
             [i \in 1..Len(hash) |->
                IF hash[i].key # forkMessageId THEN hash[i]
                ELSE [key |-> e.key,
                      lists |-> [[e.lists EXCEPT ![e.position + 1].messages = tail]
                                   EXCEPT ![newPosition + 1].messages = <<>>],
                      position |-> newPosition]]]

\* restoreSessionMessages that puts back the messages only
RestoreSessionMessages_KeepForks(session, msgs, hash) ==
  [messages |-> msgs, messageForksHash |-> session.messageForksHash]

\* the updater of chatStore.restoreSessionMessages
RestoreSessionMessages(session, msgs, hash) ==
  [messages |-> msgs, messageForksHash |-> hash]

\* the TreeUndoState built by handleDeleteSelected: JSON.stringify of the two
\* fields, read back with JSON.parse by handleUndo.  Ids are strings and the
\* keys of messageForksHash are non-numeric strings, so the text keeps every
\* id, every array order and the key order; the snapshot is the pair of values.
UndoSnapshot(session) ==
  [present |-> TRUE, sessionId |-> sessionId, messagesSnapshot |-> session.messages,
   messageForksHashSnapshot |-> session.messageForksHash]

\* ======================================================================
\* conversation-tree-adapter: sessionToConversationTree
\* ======================================================================

\* buildActivePathIds that takes lists[0] instead of lists[position]
BuildActivePathIds_FirstBranch(session) ==
  LET hash == session.messageForksHash IN
  Range(session.messages) \cup
  UNION {LET forkData == ForkOf(hash, id) IN
           IF forkData.lists # <<>> THEN Range(forkData.lists[1].messages) ELSE {} :
         id \in {m \in Range(session.messages) : HasFork(hash, m)}}

\* buildActivePathIds
BuildActivePathIds(session) ==
  LET hash == session.messageForksHash IN
  Range(session.messages) \cup
  UNION {LET forkData == ForkOf(hash, id) IN
           IF forkData.position + 1 \in 1..Len(forkData.lists)
             THEN Range(forkData.lists[forkData.position + 1].messages)
             ELSE {} :
         id \in {m \in Range(session.messages) : HasFork(hash, m)}}

\* the fork test with an off-by-one (lists.length > 2)
HasRealFork_MoreThanTwo(hash, id) == HasFork(hash, id) /\ Len(ForkOf(hash, id).lists) > 2

\* forkData && forkData.lists.length > 1
HasRealFork(hash, id) == HasFork(hash, id) /\ Len(ForkOf(hash, id).lists) > 1

\* createNode: the fields of node.data that depend on the tree structure
CreateNode(message, isActivePath, branchIndex, branchCount, hasChildren, childrenCount, depth) ==
  [id |-> message, isActivePath |-> isActivePath, branchIndex |-> branchIndex,
   branchCount |-> branchCount, hasChildren |-> hasChildren,
   childrenCount |-> childrenCount, depth |-> depth]

\* createEdge
CreateEdge(sourceId, targetId, isActivePath, branchIndex) ==
  [source |-> sourceId, target |-> targetId, isActivePath |-> isActivePath,
   branchIndex |-> branchIndex,
   type |-> IF isActivePath THEN "activePath"
            ELSE IF branchIndex > 0 THEN "branch" ELSE "default"]

NoTree == [nodes |-> <<>>, edges |-> <<>>]

\* processForks: the nodes and edges it pushes, in push order.
\* ProcessBranch is the inner loop over branch.messages from index i (1-based),
\* ProcessForksFrom the outer loop over lists from branchIndex (0-based).
RECURSIVE ProcessForksFrom(_, _, _, _, _, _)
RECURSIVE ProcessBranch(_, _, _, _, _, _, _)
ProcessBranch(session, forkData, branchIndex, i, prevNodeId, parentDepth, activePathIds) ==
  LET branch == forkData.lists[branchIndex + 1]
      hash == session.messageForksHash
  IN IF i > Len(branch.messages) THEN NoTree
     ELSE LET message == branch.messages[i]
              isActivePath == branchIndex = forkData.position /\ message \in activePathIds
              hasNestedFork == HasRealFork(hash, message)
              nestedFork == ForkOf(hash, message)
              node == CreateNode(message, isActivePath, branchIndex, Len(forkData.lists),
                        i < Len(branch.messages) \/ hasNestedFork,
                        IF hasNestedFork THEN Len(nestedFork.lists)
                        ELSE IF i < Len(branch.messages) THEN 1 ELSE 0,
                        parentDepth + i)
              edge == CreateEdge(prevNodeId, message, isActivePath, branchIndex)
              nested == IF hasNestedFork
                          THEN ProcessForksFrom(session, message, nestedFork, 0,
                                                parentDepth + i, activePathIds)
                          ELSE NoTree
              rest == ProcessBranch(session, forkData, branchIndex, i + 1, message,
                                    parentDepth, activePathIds)
          IN [nodes |-> <<node>> \o nested.nodes \o rest.nodes,
              edges |-> <<edge>> \o nested.edges \o rest.edges]

ProcessForksFrom(session, parentMessageId, forkData, branchIndex, parentDepth, activePathIds) ==
  IF branchIndex >= Len(forkData.lists) THEN NoTree
  ELSE LET this == ProcessBranch(session, forkData, branchIndex, 1, parentMessageId,
                                 parentDepth, activePathIds)
           rest == ProcessForksFrom(session, parentMessageId, forkData, branchIndex + 1,
                                    parentDepth, activePathIds)
       IN [nodes |-> this.nodes \o rest.nodes, edges |-> this.edges \o rest.edges]

\* processForks that counts the fork point's own level twice
ProcessForks_DepthOffByOne(session, parentMessageId, forkData, parentDepth, activePathIds) ==
  ProcessForksFrom(session, parentMessageId, forkData, 0, parentDepth + 1, activePathIds)

ProcessForks(session, parentMessageId, forkData, parentDepth, activePathIds) ==
  ProcessForksFrom(session, parentMessageId, forkData, 0, parentDepth, activePathIds)

\* step 2 of sessionToConversationTree: the loop over session.messages from
\* index i (0-based as in the code)
RECURSIVE MainChain(_, _, _)
MainChain(session, i, activePathIds) ==
  LET msgs == session.messages
      hash == session.messageForksHash
  IN IF i >= Len(msgs) THEN NoTree
     ELSE LET message == msgs[i + 1]
              isActivePath == message \in activePathIds
              hasFork == HasRealFork(hash, message)
              forkData == ForkOf(hash, message)
              node == CreateNode(message, isActivePath, 0,
                        IF hasFork THEN Len(forkData.lists) ELSE 1,
                        i < Len(msgs) - 1 \/ hasFork,
                        IF hasFork THEN Len(forkData.lists)
                        ELSE IF i < Len(msgs) - 1 THEN 1 ELSE 0,
                        i)
              edge == IF i > 0 THEN <<CreateEdge(msgs[i], message, isActivePath, 0)>> ELSE <<>>
              forks == IF hasFork THEN ProcessForks(session, message, forkData, i, activePathIds)
                       ELSE NoTree
              rest == MainChain(session, i + 1, activePathIds)
          IN [nodes |-> <<node>> \o forks.nodes \o rest.nodes,
              edges |-> edge \o forks.edges \o rest.edges]

\* step 3 without the look into the fork entry of the last message
ActiveLeafId_LastOfMain(session, activePathIds) ==
  session.messages[Len(session.messages)]

\* step 3 of sessionToConversationTree (session.messages is not empty)
ActiveLeafId(session, activePathIds) ==
  LET msgs == session.messages
      hash == session.messageForksHash
      lastMessage == msgs[Len(msgs)]
      onPath == {i \in 1..Len(msgs) : msgs[i] \in activePathIds}
      fromLoop == IF onPath = {} THEN None
                  ELSE msgs[CHOOSE i \in onPath : \A k \in onPath : k <= i]
  IN IF HasFork(hash, lastMessage) /\ Len(ForkOf(hash, lastMessage).lists) > 0
       THEN LET lastFork == ForkOf(hash, lastMessage)
                activeBranchMessages ==
                  IF lastFork.position + 1 \in 1..Len(lastFork.lists)
                    THEN lastFork.lists[lastFork.position + 1].messages ELSE <<>>
            IN IF activeBranchMessages # <<>>
                 THEN activeBranchMessages[Len(activeBranchMessages)]
                 ELSE fromLoop
       ELSE lastMessage

SessionToConversationTree(session) ==
  IF session.messages = <<>>
    THEN [nodes |-> <<>>, edges |-> <<>>, rootId |-> None, activeLeafId |-> None,
          activePathIds |-> {}]
    ELSE LET activePathIds == BuildActivePathIds(session)
             chain == MainChain(session, 0, activePathIds)
         IN [nodes |-> chain.nodes, edges |-> chain.edges,
             rootId |-> session.messages[1],
             activeLeafId |-> ActiveLeafId(session, activePathIds),
             activePathIds |-> activePathIds]

\* ======================================================================
\* tree-layout: applyTreeLayout
\*
\* A laid-out node is [id, position]; savedPositions is a function from the
\* ids that have a saved position to positions.  Coordinates are integers:
\* every value the code computes from integer inputs is one, because
\* nodeWidth + horizontalSpacing is even.
\* ======================================================================

\* DEFAULT_OPTIONS and the dagre margins
NodeWidth == 280
NodeHeight == 120
HorizontalSpacing == 80
VerticalSpacing == 140
Margin == 40

NoPositions == [id \in {} |-> [x |-> 0, y |-> 0]]

\* {...a, ...b}
Merge(a, b) ==
  [id \in DOMAIN a \cup DOMAIN b |-> IF id \in DOMAIN b THEN b[id] ELSE a[id]]

Max(set) == CHOOSE m \in set : \A n \in set : n <= m

\* parentMap.get(id): the source of the last edge into id, None without one
ParentOf(edges, id) ==
  LET into == {i \in 1..Len(edges) : edges[i].target = id}
  IN IF into = {} THEN None ELSE edges[Max(into)].source

\* childrenMap.get(parentId): the targets of the edges out of parentId, in edge order
RECURSIVE ChildrenOf(_, _)
ChildrenOf(edges, parentId) ==
  IF edges = <<>> THEN <<>>
  ELSE (IF Head(edges).source = parentId THEN <<Head(edges).target>> ELSE <<>>)
         \o ChildrenOf(Tail(edges), parentId)

\* applyFullAutoLayout: dagre.layout with rankdir TB, nodes of equal size.
\* dagre is a library outside the repository; what is kept of it is the rank
\* of a node (its distance from the root of its component), the rank
\* separation, the margins and the conversion from centre to top-left
\* corner.  Within a rank nodes are set side by side in node order, nodesep
\* apart; dagre's own horizontal coordinates may differ from that.
RECURSIVE RankOf(_, _, _)
RankOf(nodeIds, edges, id) ==
  LET parentId == ParentOf(edges, id)
  IN IF parentId = None \/ parentId \notin nodeIds THEN 0
     ELSE 1 + RankOf(nodeIds, edges, parentId)

ApplyFullAutoLayout(nodes, edges) ==
  LET nodeIds == {nodes[i].id : i \in 1..Len(nodes)}
      rank(i) == RankOf(nodeIds, edges, nodes[i].id)
      order(i) == Cardinality({k \in 1..(i - 1) : rank(k) = rank(i)})
  IN [i \in 1..Len(nodes) |->
        [id |-> nodes[i].id,
         position |-> [x |-> Margin + order(i) * (NodeWidth + HorizontalSpacing),
                       y |-> Margin + rank(i) * (NodeHeight + VerticalSpacing)]]]

\* nodesWithSavedPosition built without `position: savedPositions[node.id]`:
\* the node keeps the { x: 0, y: 0 } createNode gave it
RECURSIVE NodesWithSavedPosition_KeepRaw(_, _)
NodesWithSavedPosition_KeepRaw(nodes, savedPositions) ==
  IF nodes = <<>> THEN <<>>
  ELSE (IF Head(nodes).id \in DOMAIN savedPositions
          THEN <<[id |-> Head(nodes).id, position |-> [x |-> 0, y |-> 0]]>>
          ELSE <<>>)
         \o NodesWithSavedPosition_KeepRaw(Tail(nodes), savedPositions)

\* nodesWithSavedPosition / nodesNeedingLayout
RECURSIVE NodesWithSavedPosition(_, _)
NodesWithSavedPosition(nodes, savedPositions) ==
  IF nodes = <<>> THEN <<>>
  ELSE (IF Head(nodes).id \in DOMAIN savedPositions
          THEN <<[id |-> Head(nodes).id, position |-> savedPositions[Head(nodes).id]]>>
          ELSE <<>>)
         \o NodesWithSavedPosition(Tail(nodes), savedPositions)

RECURSIVE NodesNeedingLayout(_, _)
NodesNeedingLayout(nodes, savedPositions) ==
  IF nodes = <<>> THEN <<>>
  ELSE (IF Head(nodes).id \in DOMAIN savedPositions THEN <<>> ELSE <<Head(nodes)>>)
         \o NodesNeedingLayout(Tail(nodes), savedPositions)

\* [...nodesNeedingLayout].sort((a, b) => a.data.depth - b.data.depth): stable
RECURSIVE InsertByDepthAsc(_, _)
InsertByDepthAsc(sorted, node) ==
  IF sorted = <<>> THEN <<node>>
  ELSE IF node.depth < Head(sorted).depth THEN <<node>> \o sorted
       ELSE <<Head(sorted)>> \o InsertByDepthAsc(Tail(sorted), node)

RECURSIVE SortedNewNodes(_)
SortedNewNodes(nodes) ==
  IF nodes = <<>> THEN <<>>
  ELSE InsertByDepthAsc(SortedNewNodes(Slice(nodes, 0, Len(nodes) - 1)), nodes[Len(nodes)])

\* the offset computed from the sibling index also when a sibling is placed
XOffset_IndexOnly(nodeId, parentPos, siblings, nodePositionMap) ==
  IF Len(siblings) > 1
    THEN ((2 * IndexOf(siblings, nodeId) - (Len(siblings) - 1))
            * (NodeWidth + HorizontalSpacing)) \div 2
    ELSE 0

\* xOffset of a new node below its parent
XOffset(nodeId, parentPos, siblings, nodePositionMap) ==
  LET totalSiblings == Len(siblings)
      existingSiblingPositions ==
        {nodePositionMap[siblings[k]].x :
           k \in {j \in 1..totalSiblings :
                    siblings[j] # nodeId /\ siblings[j] \in DOMAIN nodePositionMap}}
  IN IF totalSiblings > 1
       THEN IF existingSiblingPositions # {}
              THEN Max(existingSiblingPositions) - parentPos.x + NodeWidth + HorizontalSpacing
              ELSE ((2 * IndexOf(siblings, nodeId) - (totalSiblings - 1))
                      * (NodeWidth + HorizontalSpacing)) \div 2
       ELSE 0

\* the position the loop over sortedNewNodes gives one node
NewNodePosition(node, nodePositionMap, edges) ==
  LET parentId == ParentOf(edges, node.id)
  IN IF parentId # None /\ parentId \in DOMAIN nodePositionMap
       THEN LET parentPos == nodePositionMap[parentId]
                siblings == ChildrenOf(edges, parentId)
            IN [x |-> parentPos.x + XOffset(node.id, parentPos, siblings, nodePositionMap),
                y |-> parentPos.y + NodeHeight + VerticalSpacing]
       ELSE ApplyFullAutoLayout(<<node>>, <<>>)[1].position

\* for (const node of sortedNewNodes): the nodes pushed, nodePositionMap growing
RECURSIVE PlaceNewNodes(_, _, _)
PlaceNewNodes(sortedNewNodes, nodePositionMap, edges) ==
  IF sortedNewNodes = <<>> THEN <<>>
  ELSE LET node == Head(sortedNewNodes)
           position == NewNodePosition(node, nodePositionMap, edges)
       IN <<[id |-> node.id, position |-> position]>>
            \o PlaceNewNodes(Tail(sortedNewNodes),
                             Merge(nodePositionMap, [id \in {node.id} |-> position]), edges)

\* applyTreeLayout that lays everything out anew once every node is saved
ApplyTreeLayout_RelayoutWhenAllSaved(tree, savedPositions) ==
  LET saved == NodesWithSavedPosition(tree.nodes, savedPositions)
      needing == NodesNeedingLayout(tree.nodes, savedPositions)
  IN IF tree.nodes = <<>> THEN <<>>
     ELSE IF needing = <<>> \/ saved = <<>> THEN ApplyFullAutoLayout(tree.nodes, tree.edges)
     ELSE saved \o PlaceNewNodes(SortedNewNodes(needing),
                                  [id \in {saved[i].id : i \in 1..Len(saved)} |-> savedPositions[id]],
                                  tree.edges)

\* applyTreeLayout(tree, {savedPositions}): the nodes of the returned tree
ApplyTreeLayout(tree, savedPositions) ==
  LET saved == NodesWithSavedPosition(tree.nodes, savedPositions)
      needing == NodesNeedingLayout(tree.nodes, savedPositions)
  IN IF tree.nodes = <<>> THEN <<>>
     ELSE IF needing = <<>> THEN saved
     ELSE IF saved = <<>> THEN ApplyFullAutoLayout(tree.nodes, tree.edges)
     ELSE saved \o PlaceNewNodes(SortedNewNodes(needing),
                                  [id \in {saved[i].id : i \in 1..Len(saved)} |-> savedPositions[id]],
                                  tree.edges)

\* the positions of laid-out nodes as a map
PositionsOf(layouted) ==
  [id \in {layouted[i].id : i \in 1..Len(layouted)} |->
     layouted[CHOOSE i \in 1..Len(layouted) :
                layouted[i].id = id /\ \A k \in 1..Len(layouted) : layouted[k].id = id => k <= i].position]

\* ======================================================================
\* the state machine
\* ======================================================================

\* multiModelStore: initialState
maxModels == 5

MultiModelInitial ==
  /\ multiModelEnabled = FALSE
  /\ selectedModels = <<>>

\* no UpdateQueue created yet for the session, nothing issued
QueueIdle ==
  /\ sessionUpdateQueue = [loaded |-> FALSE,
                           state |-> [messages |-> <<>>, messageForksHash |-> <<>>],
                           rev |-> 0, q |-> <<>>]
  /\ pendingCache = <<>>
  /\ cacheRev = 0
  /\ issued = <<>>
  /\ applied = <<>>

\* the ids of tree.nodes
TreeNodeIds(session) ==
  LET tree == SessionToConversationTree(session)
  IN {tree.nodes[i].id : i \in 1..Len(tree.nodes)}

\* initialNodes: the nodes of `tree`, at their saved position when there is one
InitialNodes(session, savedPositions) ==
  LET tree == PositionsOf(ApplyTreeLayout(SessionToConversationTree(session), savedPositions))
  IN [id \in DOMAIN tree |->
        IF id \in DOMAIN savedPositions THEN savedPositions[id] ELSE tree[id]]

\* ConversationTreeViewInner right after mounting: useNodesState(initialNodes)
\* holds every node of the tree, the ref is empty, both effects have run once
TreeMounted ==
  /\ currentNodes = InitialNodes(Session, nodePositions)
  /\ pendingPositionSaveRef = NoPositions
  /\ timeoutId = TRUE
  /\ saveTimer = TRUE

\* the view is mounted anew (key = `tree-view${currentSessionId}`)
TreeMounts ==
  /\ currentNodes' = InitialNodes(Session', nodePositions)
  /\ pendingPositionSaveRef' = NoPositions
  /\ timeoutId' = TRUE
  /\ saveTimer' = TRUE

\* the session or the saved positions changed: `tree` is computed anew, the
\* effect on [tree, ...] clears and sets its timer, the effect on
\* [tree.nodes.length, ...] does so when the number of nodes changed
TreeRerenders ==
  /\ timeoutId' = TRUE
  /\ saveTimer' = (saveTimer \/ Cardinality(TreeNodeIds(Session')) # Cardinality(TreeNodeIds(Session)))
  /\ UNCHANGED <<currentNodes, pendingPositionSaveRef>>

\* the view shows conversation 1; conversation 2 is another stored session
ViewInit ==
  /\ sessionId = 1
  /\ otherSession = [id |-> 2, messages |-> <<>>, messageForksHash |-> <<>>]
  /\ nodePositions = NoPositions
  /\ dragCount = 0
  /\ TreeMounted

Init ==
  /\ messages = <<1, 2, 3>>
  /\ messageForksHash = <<>>
  /\ treeUndoState = NoUndo
  /\ nextId = 4
  /\ nextListId = 1
  /\ last = [op |-> "init", id |-> None, arg |-> None,
            pre |-> [messages |-> <<>>, messageForksHash |-> <<>>]]
  /\ QueueIdle
  /\ MultiModelInitial
  /\ ViewInit

Known == AllIds(messages, messageForksHash)

RecordArg(op, id, arg) == last' = [op |-> op, id |-> id, arg |-> arg, pre |-> Session]
Record(op, id) == RecordArg(op, id, None)

Commit(session) ==
  /\ messages' = session.messages
  /\ messageForksHash' = session.messageForksHash

\* insertMessageAfter / submit: a message with a fresh uuid
DoInsertMessage ==
  \E previousId \in Known \cup {None} :
    /\ nextId <= MaxMsgs
    /\ Commit(InsertMessage(Session, nextId, previousId))
    /\ nextId' = nextId + 1
    /\ Record("insertMessage", nextId)
    /\ UNCHANGED <<treeUndoState, nextListId>>
    /\ UNCHANGED outsideStore
    /\ TreeRerenders

DoCreateNewFork ==
  \E forkMessageId \in Known :
    LET needed == IF HasFork(messageForksHash, forkMessageId) THEN 1 ELSE 2 IN
    /\ CanCreateFork(Session, forkMessageId)
    /\ nextListId + needed - 1 <= MaxLists
    /\ Commit(CreateNewFork(Session, forkMessageId, nextListId, nextListId + needed - 1))
    /\ nextListId' = nextListId + needed
    /\ Record("createNewFork", forkMessageId)
    /\ UNCHANGED <<treeUndoState, nextId>>
    /\ UNCHANGED outsideStore
    /\ TreeRerenders

DoSwitchFork ==
  \E forkMessageId \in Known, direction \in {"prev", "next"} :
    /\ Commit(SwitchFork(Session, forkMessageId, direction))
    /\ Record("switchFork", forkMessageId)
    /\ UNCHANGED <<treeUndoState, nextId, nextListId>>
    /\ UNCHANGED outsideStore
    /\ TreeRerenders

\* a delete entry point that calls removeMessage directly
\* (UserNode / AssistantNode hover button, detail panel)
NodeHandleDelete ==
  \E messageId \in 1..(nextId - 1) :
    /\ Commit(RemoveMessage(Session, messageId))
    /\ Record("removeMessage", messageId)
    /\ UNCHANGED <<treeUndoState, nextId, nextListId>>
    /\ UNCHANGED outsideStore
    /\ TreeRerenders

\* toolbar delete of the selected node, click mode: snapshot, then removeMessage
HandleDeleteSelected ==
  \E messageId \in Known :
    /\ treeUndoState' = UndoSnapshot(Session)
    /\ Commit(RemoveMessage(Session, messageId))
    /\ Record("removeMessage", messageId)
    /\ UNCHANGED <<nextId, nextListId>>
    /\ UNCHANGED outsideStore
    /\ TreeRerenders

HandleUndo ==
  /\ treeUndoState.present
  /\ treeUndoState.sessionId = sessionId
  /\ Commit(RestoreSessionMessages(Session, treeUndoState.messagesSnapshot,
                                    treeUndoState.messageForksHashSnapshot))
  /\ treeUndoState' = NoUndo
  /\ Record("undo", None)
  /\ UNCHANGED <<nextId, nextListId>>
  /\ UNCHANGED outsideStore
  /\ TreeRerenders

\* the mutations of the branch store proper
Next ==
  \/ DoInsertMessage
  \/ DoCreateNewFork
  \/ DoSwitchFork
  \/ NodeHandleDelete

Spec == Init /\ [][Next]_vars

\* ... and with the single-slot undo of the tree view.  Undo only puts back a
\* session an earlier state of the behaviour had, so both specifications
\* reach the same sessions; this one also reaches every content of the slot.
NextUndo ==
  \/ DoInsertMessage
  \/ DoCreateNewFork
  \/ DoSwitchFork
  \/ NodeHandleDelete
  \/ HandleDeleteSelected
  \/ HandleUndo

SpecUndo == Init /\ [][NextUndo]_vars

\* ======================================================================
\* updateSessionWithMessages: the per-session UpdateQueue and the query cache
\*
\* messages / messageForksHash are the cached session (what useSession and
\* getSession return); the UpdateQueue holds its own state, loaded from
\* getSession when the first updater runs.  The actions above are the case
\* where every operation is awaited before the next is issued; the actions
\* below issue operations without awaiting them.
\* ======================================================================

\* an updater function handed to updateSessionWithMessages
RemoveUpdater(messageId) == [op |-> "removeMessage", id |-> messageId, previousId |-> None]
InsertUpdater(message, previousId) == [op |-> "insertMessage", id |-> message, previousId |-> previousId]

\* a plain-object updater without session-meta fields: { messages: [] }
PlainUpdater == [op |-> "plain", id |-> None, previousId |-> None]

\* typeof updater === 'function'
IsFunctionUpdater(updater) == updater.op # "plain"

\* updater(prev), or { ...prev, ...updater } for a plain object
ApplyUpdater(updater, prev) ==
  IF updater.op = "removeMessage" THEN RemoveMessage(prev, updater.id)
  ELSE IF updater.op = "plain" THEN [prev EXCEPT !.messages = <<>>]
  ELSE InsertMessage(prev, updater.id, updater.previousId)

\* the function given to set() that reads the cached session instead of prev
QueueSetFn_FromCache(updater, prev) == ApplyUpdater(updater, Session)

\* the function given to sessionUpdateQueues[sessionId].set: updater(prev)
QueueSetFn(updater, prev) == ApplyUpdater(updater, prev)

\* sessionUpdateQueues[sessionId].set(fn): fn joins the queue
Enqueue(updaters) ==
  /\ sessionUpdateQueue' = [sessionUpdateQueue EXCEPT !.q = @ \o updaters]
  /\ issued' = issued \o updaters

\* depth of a node of the rendered tree
DepthOf(tree, id) ==
  LET hits == {i \in 1..Len(tree.nodes) : tree.nodes[i].id = id}
  IN IF hits = {} THEN 0 ELSE tree.nodes[CHOOSE i \in hits : \A k \in hits : i <= k].depth

\* [...idsToDelete].sort((a, b) => depth(b) - depth(a)): stable, deepest first
RECURSIVE InsertByDepth(_, _, _)
InsertByDepth(sorted, id, tree) ==
  IF sorted = <<>> THEN <<id>>
  ELSE IF DepthOf(tree, id) > DepthOf(tree, Head(sorted))
         THEN <<id>> \o sorted
         ELSE <<Head(sorted)>> \o InsertByDepth(Tail(sorted), id, tree)

RECURSIVE SortByDepthDesc(_, _)
SortByDepthDesc(ids, tree) ==
  IF ids = <<>> THEN <<>>
  ELSE InsertByDepth(SortByDepthDesc(Slice(ids, 0, Len(ids) - 1), tree), ids[Len(ids)], tree)

\* a conversation with one fork (Scenario A before the reply to U2 arrives):
\* createFork(2), then insertAfter(2, 4) on [1, 2, 3]
ForkedSession ==
  [messages |-> <<1, 2, 4>>,
   messageForksHash |-> <<[key |-> 2, position |-> 1,
                           lists |-> <<[id |-> 1, messages |-> <<3>>],
                                       [id |-> 2, messages |-> <<>>]>>]>>]

InitForked ==
  /\ messages = ForkedSession.messages
  /\ messageForksHash = ForkedSession.messageForksHash
  /\ treeUndoState = NoUndo
  /\ nextId = 5
  /\ nextListId = 3
  /\ last = [op |-> "init", id |-> None, arg |-> None,
            pre |-> [messages |-> <<>>, messageForksHash |-> <<>>]]
  /\ QueueIdle
  /\ MultiModelInitial
  /\ ViewInit

\* the ordered selections of the multi-select mode (selectedNodeIds)
Selections(ids) ==
  {<<a>> : a \in ids} \cup {p \in ids \X ids : p[1] # p[2]}

\* toolbar delete, multi-select mode: one snapshot, then removeMessage for
\* every selected id, deepest first, none of the calls awaited
HandleDeleteSelectedMulti ==
  \E selectedNodeIds \in Selections(Known) :
    LET tree == SessionToConversationTree(Session)
        sortedIds == SortByDepthDesc(selectedNodeIds, tree)
    IN /\ Len(issued) + Len(sortedIds) <= MaxOps
       /\ treeUndoState' = UndoSnapshot(Session)
       /\ Enqueue([k \in 1..Len(sortedIds) |-> RemoveUpdater(sortedIds[k])])
       /\ UNCHANGED <<messages, messageForksHash, nextId, nextListId, last,
                      pendingCache, cacheRev, applied, viewVars, modelVars, layoutVars, treeViewVars>>

\* insertMessage called without awaiting the previous operation
IssueInsertMessage ==
  \E previousId \in Known \cup {None} :
    /\ nextId <= MaxMsgs
    /\ Len(issued) + 1 <= MaxOps
    /\ Enqueue(<<InsertUpdater(nextId, previousId)>>)
    /\ nextId' = nextId + 1
    /\ UNCHANGED <<messages, messageForksHash, treeUndoState, nextListId, last,
                   pendingCache, cacheRev, applied, viewVars, modelVars, layoutVars, treeViewVars>>

\* the UpdateQueue runs the oldest waiting function against its state (the
\* session getSession returns, the first time) and persists the result
QueueRun ==
  /\ sessionUpdateQueue.q # <<>>
  /\ LET updater == Head(sessionUpdateQueue.q)
         prev == IF sessionUpdateQueue.loaded THEN sessionUpdateQueue.state ELSE Session
         rev == IF sessionUpdateQueue.loaded THEN sessionUpdateQueue.rev ELSE cacheRev
         updated == QueueSetFn(updater, prev)
     IN /\ sessionUpdateQueue' = [loaded |-> TRUE, state |-> updated, rev |-> rev,
                                  q |-> Tail(sessionUpdateQueue.q)]
        /\ applied' = Append(applied, [updater |-> updater, input |-> prev, output |-> updated])
        /\ IF IsFunctionUpdater(updater)
             THEN \* needUpdateSessionList: `await updateSessionList` comes first
                  /\ pendingCache' = Append(pendingCache, [session |-> updated, rev |-> rev])
                  /\ UNCHANGED <<storeVars, cacheRev, treeViewVars>>
             ELSE \* no await left: _setSessionCache runs as set() resolves
                  /\ Commit(updated)
                  /\ cacheRev' = rev
                  /\ UNCHANGED <<treeUndoState, nextId, nextListId, last, pendingCache>>
                  /\ TreeRerenders
  /\ UNCHANGED <<issued, viewVars, modelVars, layoutVars>>

\* the rest of updateSessionWithMessages, after `await updateSessionList`:
\* _setSessionCache(sessionId, updated)
SetSessionCache ==
  /\ pendingCache # <<>>
  /\ Commit(Head(pendingCache).session)
  /\ cacheRev' = Head(pendingCache).rev
  /\ pendingCache' = Tail(pendingCache)
  /\ UNCHANGED <<treeUndoState, nextId, nextListId, last, sessionUpdateQueue, issued,
                 applied, viewVars, modelVars, layoutVars>>
  /\ TreeRerenders

\* updateSessionCache (updateMessageCache while a reply streams): the content
\* of one cached message changes, the structure of the cached session does not
UpdateSessionCache ==
  /\ cacheRev < MaxRev
  /\ cacheRev' = cacheRev + 1
  /\ UNCHANGED <<storeVars, sessionUpdateQueue, pendingCache, issued, applied, viewVars, modelVars, layoutVars>>
  /\ TreeRerenders

NextQueue ==
  \/ HandleDeleteSelectedMulti
  \/ IssueInsertMessage
  \/ QueueRun
  \/ SetSessionCache
  \/ UpdateSessionCache

SpecQueue == InitForked /\ [][NextQueue]_vars

\* updateSessionWithMessages(sessionId, { messages: [] }) called without
\* awaiting the previous operation
IssuePlainUpdate ==
  /\ Len(issued) + 1 <= MaxOps
  /\ Enqueue(<<PlainUpdater>>)
  /\ UNCHANGED <<storeVars, pendingCache, cacheRev, applied, viewVars, modelVars, layoutVars,
                 treeViewVars>>

NextMixed ==
  \/ IssueInsertMessage
  \/ IssuePlainUpdate
  \/ QueueRun
  \/ SetSessionCache

SpecMixed == InitForked /\ [][NextMixed]_vars

\* ======================================================================
\* two conversations and the single undo slot of the tree view
\* ======================================================================

InitSessions ==
  /\ messages = <<1, 2, 3>>
  /\ messageForksHash = <<>>
  /\ treeUndoState = NoUndo
  /\ nextId = 5
  /\ nextListId = 1
  /\ last = [op |-> "init", id |-> None, arg |-> None,
            pre |-> [messages |-> <<>>, messageForksHash |-> <<>>]]
  /\ QueueIdle
  /\ MultiModelInitial
  /\ sessionId = 1
  /\ otherSession = [id |-> 2, messages |-> <<4>>, messageForksHash |-> <<>>]
  /\ nodePositions = NoPositions
  /\ dragCount = 0
  /\ TreeMounted

\* the route changes to the other conversation: the view now gets that
\* session; the undo slot is one field of the view-mode store and stays
OpenOtherSession ==
  /\ sessionId' = otherSession.id
  /\ otherSession' = [id |-> sessionId, messages |-> messages,
                      messageForksHash |-> messageForksHash]
  /\ Commit([messages |-> otherSession.messages,
             messageForksHash |-> otherSession.messageForksHash])
  /\ Record("openSession", None)
  /\ UNCHANGED <<treeUndoState, nextId, nextListId, queueVars, layoutVars, modelVars>>
  /\ TreeMounts

\* handleUndo leaving at `if (!undoState || undoState.sessionId !== session.id) return`
HandleUndoReturn ==
  /\ ~(treeUndoState.present /\ treeUndoState.sessionId = sessionId)
  /\ Record("undo", None)
  /\ UNCHANGED <<messages, messageForksHash, treeUndoState, nextId, nextListId,
                 queueVars, viewVars, modelVars, layoutVars, treeViewVars>>

NextSessions ==
  \/ DoInsertMessage
  \/ DoCreateNewFork
  \/ DoSwitchFork
  \/ NodeHandleDelete
  \/ HandleDeleteSelected
  \/ HandleUndo
  \/ HandleUndoReturn
  \/ OpenOtherSession

SpecSessions == InitSessions /\ [][NextSessions]_vars

\* ======================================================================
\* insertMessage with an explicit previousId
\* ======================================================================

\* insertMessageAfter(sessionId, message, previousId): previousId is any id
\* the caller holds, also one that a delete has removed meanwhile
DoInsertMessageAfter ==
  \E previousId \in 1..(nextId - 1) :
    /\ nextId <= MaxMsgs
    /\ Commit(InsertMessage(Session, nextId, previousId))
    /\ nextId' = nextId + 1
    /\ RecordArg("insertMessage", nextId, previousId)
    /\ UNCHANGED <<treeUndoState, nextListId>>
    /\ UNCHANGED outsideStore
    /\ TreeRerenders

NextInsert ==
  \/ DoInsertMessageAfter
  \/ DoCreateNewFork
  \/ DoSwitchFork
  \/ NodeHandleDelete

SpecInsert == Init /\ [][NextInsert]_vars

\* ======================================================================
\* the tree view: layout of the shown conversation and its saved positions
\* ======================================================================

\* sessionToConversationTree(session)
RawTree == SessionToConversationTree(Session)

\* the memoised `tree`: applyTreeLayout(rawTree, {savedPositions: nodePositionsFromStore})
LayoutedTree == ApplyTreeLayout(RawTree, nodePositions)

\* where a drag can end
DragSpots == {[x |-> 180, y |-> 260]}

\* newPositionsToSave of the setNodes updater: the nodes of `tree` that have
\* neither a saved position nor a node in the ReactFlow state
NewPositionsToSave ==
  [id \in DOMAIN PositionsOf(LayoutedTree) \ (DOMAIN nodePositions \cup DOMAIN currentNodes) |->
     PositionsOf(LayoutedTree)[id]]

\* the 0 ms timer of the effect on [tree, ...] fires: setNodes(updater), which
\* collects newPositionsToSave into the ref and returns the nodes of `tree`
NodesTimeout ==
  /\ timeoutId
  /\ timeoutId' = FALSE
  /\ pendingPositionSaveRef' =
       IF DOMAIN NewPositionsToSave # {}
         THEN Merge(pendingPositionSaveRef, NewPositionsToSave)
         ELSE pendingPositionSaveRef
  /\ currentNodes' =
       LET placed == PositionsOf(LayoutedTree)
       IN [id \in DOMAIN placed |->
             IF id \in DOMAIN currentNodes THEN currentNodes[id]
             ELSE IF id \in DOMAIN nodePositions THEN nodePositions[id]
             ELSE placed[id]]
  /\ UNCHANGED <<storeVars, queueVars, viewVars, modelVars, layoutVars, saveTimer>>

\* the 100 ms timer of the effect on [tree.nodes.length, ...] fires:
\* updateNodePositions(session.id, pendingPositions) when the ref is not empty
SaveTimeout ==
  /\ saveTimer
  /\ saveTimer' = FALSE
  /\ IF DOMAIN pendingPositionSaveRef # {}
       THEN /\ nodePositions' = Merge(nodePositions, pendingPositionSaveRef)
            /\ pendingPositionSaveRef' = NoPositions
            /\ timeoutId' = TRUE
       ELSE UNCHANGED <<nodePositions, pendingPositionSaveRef, timeoutId>>
  /\ UNCHANGED <<storeVars, queueVars, viewVars, modelVars, dragCount, currentNodes>>

\* a drag ends: ReactFlow has moved the node in its state (onNodesChange),
\* handleNodeDragStop: updateNodePosition(session.id, node.id, node.position)
HandleNodeDragStop ==
  \E id \in DOMAIN currentNodes, position \in DragSpots :
    /\ dragCount < MaxDrags
    /\ dragCount' = dragCount + 1
    /\ currentNodes' = [currentNodes EXCEPT ![id] = position]
    /\ nodePositions' = Merge(nodePositions, [n \in {id} |-> position])
    /\ timeoutId' = TRUE
    /\ UNCHANGED <<storeVars, queueVars, viewVars, modelVars, pendingPositionSaveRef, saveTimer>>

\* handleAutoLayout: forceRelayout, clearNodePositions, updateNodePositions,
\* setNodes(layoutedTree.nodes)
HandleAutoLayout ==
  /\ messages # <<>>
  /\ nodePositions' = PositionsOf(ApplyFullAutoLayout(RawTree.nodes, RawTree.edges))
  /\ currentNodes' = PositionsOf(ApplyFullAutoLayout(RawTree.nodes, RawTree.edges))
  /\ timeoutId' = TRUE
  /\ dragCount < MaxDrags
  /\ dragCount' = dragCount + 1
  /\ UNCHANGED <<storeVars, queueVars, viewVars, modelVars, pendingPositionSaveRef, saveTimer>>

NextLayout ==
  \/ DoInsertMessage
  \/ DoCreateNewFork
  \/ NodeHandleDelete
  \/ NodesTimeout
  \/ SaveTimeout
  \/ HandleNodeDragStop
  \/ HandleAutoLayout

SpecLayout == InitForked /\ [][NextLayout]_vars

\* the steps in which a pending timer fires: within NextLayout these are
\* exactly the NodesTimeout and the SaveTimeout steps
NodesTimerFires == timeoutId /\ timeoutId' = FALSE
SaveTimerFires == saveTimer /\ saveTimer' = FALSE

\* both timers are setTimeout callbacks that the browser runs unless the
\* effect's cleanup clears them first; nothing obliges the user to act
SpecLayoutFair ==
  /\ InitForked
  /\ [][NextLayout]_vars
  /\ WF_timeoutId(NodesTimerFires)
  /\ WF_saveTimer(SaveTimerFires)

\* ======================================================================
\* the tree view's own geometry: focus and the place of a node it creates
\* ======================================================================

\* the constants of ConversationTreeView.tsx
NODE_WIDTH == 260
NODE_HEIGHT == 120
VERTICAL_SPACING == 80

\* handleFocus: the point setCenter is given for a node at `position`
FocusCenter(position) ==
  [x |-> position.x + NODE_WIDTH \div 2, y |-> position.y + NODE_HEIGHT \div 2]

\* getNodePosition: ReactFlow state first, then the store, then `tree`
GetNodePosition(nodeId) ==
  IF nodeId \in DOMAIN currentNodes THEN currentNodes[nodeId]
  ELSE IF nodeId \in DOMAIN nodePositions THEN nodePositions[nodeId]
  ELSE IF nodeId \in DOMAIN PositionsOf(LayoutedTree) THEN PositionsOf(LayoutedTree)[nodeId]
  ELSE [x |-> 0, y |-> 0]

\* calculateNewNodePosition: straight below the trigger node
CalculateNewNodePosition(triggerNodeId) ==
  LET triggerPosition == GetNodePosition(triggerNodeId)
  IN [x |-> triggerPosition.x, y |-> triggerPosition.y + NODE_HEIGHT + VERTICAL_SPACING]

\* handleCreateUserNode up to its first await: createMessage gives the new
\* message its id, presaveNewNodePosition saves a position for it; the
\* createNewFork and insertMessageAfter it awaits next are steps of their own
HandleCreateUserNode ==
  \E targetMessageId \in Known :
    /\ nextId <= MaxMsgs
    /\ nodePositions' = Merge(nodePositions,
                              [n \in {nextId} |-> CalculateNewNodePosition(targetMessageId)])
    /\ RecordArg("presaveNewNodePosition", nextId, targetMessageId)
    /\ timeoutId' = TRUE
    /\ UNCHANGED <<messages, messageForksHash, treeUndoState, nextId, nextListId,
                   queueVars, viewVars, modelVars, dragCount, currentNodes, pendingPositionSaveRef,
                   saveTimer>>

NextCreate ==
  \/ HandleCreateUserNode
  \/ DoCreateNewFork
  \/ DoInsertMessage
  \/ NodesTimeout
  \/ SaveTimeout

SpecCreate == InitForked /\ [][NextCreate]_vars

\* ======================================================================
\* multiModelStore: the multi-model mode and the models selected for it
\* ======================================================================

\* the models on offer
Providers == {"openai", "claude"}
ModelIds == {"a", "b", "c"}
Models == [provider : Providers, modelId : ModelIds]

\* the lists setSelectedModels is called with: every list of up to
\* MaxNewList models, and the list of all models
AllModels ==
  << [provider |-> "openai", modelId |-> "a"], [provider |-> "openai", modelId |-> "b"],
     [provider |-> "openai", modelId |-> "c"], [provider |-> "claude", modelId |-> "a"],
     [provider |-> "claude", modelId |-> "b"], [provider |-> "claude", modelId |-> "c"] >>
ModelLists == UNION {[1..n -> Models] : n \in 0..MaxNewList} \cup {AllModels}

\* selectedModels.some(m => m.provider === provider && m.modelId === modelId)
IsModelSelected(models, provider, modelId) ==
  \E i \in 1..Len(models) : models[i].provider = provider /\ models[i].modelId = modelId

\* selectedModels.filter(m => !(m.provider === provider && m.modelId === modelId))
RECURSIVE WithoutModel(_, _, _)
WithoutModel(models, provider, modelId) ==
  IF models = <<>> THEN <<>>
  ELSE IF Head(models).provider = provider /\ Head(models).modelId = modelId
         THEN WithoutModel(Tail(models), provider, modelId)
         ELSE <<Head(models)>> \o WithoutModel(Tail(models), provider, modelId)

\* models.slice(0, n)
FirstModels(models, n) == Slice(models, 0, IF Len(models) < n THEN Len(models) ELSE n)

MultiModelUnchanged ==
  UNCHANGED <<storeVars, queueVars, viewVars, layoutVars, treeViewVars>>

ToggleMultiModelMode ==
  /\ multiModelEnabled' = ~multiModelEnabled
  /\ selectedModels' = IF ~multiModelEnabled THEN selectedModels ELSE <<>>
  /\ MultiModelUnchanged

SetMultiModelEnabled ==
  \E enabled \in BOOLEAN :
    /\ multiModelEnabled' = enabled
    /\ selectedModels' = IF enabled THEN selectedModels ELSE <<>>
    /\ MultiModelUnchanged

AddModel ==
  \E model \in Models :
    /\ selectedModels' =
         IF IsModelSelected(selectedModels, model.provider, model.modelId)
            \/ Len(selectedModels) >= maxModels
           THEN selectedModels
           ELSE Append(selectedModels, model)
    /\ UNCHANGED multiModelEnabled
    /\ MultiModelUnchanged

RemoveModel ==
  \E model \in Models :
    /\ selectedModels' = WithoutModel(selectedModels, model.provider, model.modelId)
    /\ UNCHANGED multiModelEnabled
    /\ MultiModelUnchanged

ToggleModel ==
  \E model \in Models :
    /\ selectedModels' =
         IF IsModelSelected(selectedModels, model.provider, model.modelId)
           THEN WithoutModel(selectedModels, model.provider, model.modelId)
           ELSE IF Len(selectedModels) < maxModels
                  THEN Append(selectedModels, model)
                  ELSE selectedModels
    /\ UNCHANGED multiModelEnabled
    /\ MultiModelUnchanged

ClearModels ==
  /\ selectedModels' = <<>>
  /\ UNCHANGED multiModelEnabled
  /\ MultiModelUnchanged

SetSelectedModels ==
  \E models \in ModelLists :
    /\ selectedModels' = FirstModels(models, maxModels)
    /\ UNCHANGED multiModelEnabled
    /\ MultiModelUnchanged

NextMultiModel ==
  \/ ToggleMultiModelMode
  \/ SetMultiModelEnabled
  \/ AddModel
  \/ RemoveModel
  \/ ToggleModel
  \/ ClearModels
  \/ SetSelectedModels

SpecMultiModel == Init /\ [][NextMultiModel]_vars

\* ======================================================================
\* removeMessage on a damaged conversation (list view, tree view not mounted)
\* ======================================================================

\* sequences of at most two different ids
ShortSeqs ==
  {<<>>} \cup {<<a>> : a \in 1..MaxCorruptId}
         \cup {p \in (1..MaxCorruptId) \X (1..MaxCorruptId) : p[1] # p[2]}

\* the stored conversations with one fork entry of two lists
OneForkSessions ==
  {[messages |-> m,
    messageForksHash |-> <<[key |-> k, position |-> pos,
                            lists |-> <<[id |-> 1, messages |-> b1],
                                        [id |-> 2, messages |-> b2]>>]>>] :
     m \in ShortSeqs \ {<<>>}, k \in 1..MaxCorruptId, pos \in {0, 1},
     b1 \in ShortSeqs, b2 \in ShortSeqs}

\* an id stored twice
HasDuplicateId(session) ==
  LET all == session.messages
               \o session.messageForksHash[1].lists[1].messages
               \o session.messageForksHash[1].lists[2].messages
  IN \E i, j \in 1..Len(all) : i # j /\ all[i] = all[j]

\* a branch of the fork entry holds the entry's own fork point
HasForkCycle(session) ==
  \E i \in 1..Len(session.messageForksHash) :
    session.messageForksHash[i].key \in ListsIds(session.messageForksHash[i].lists)

InitCorrupt ==
  /\ \E session \in {c \in OneForkSessions : HasDuplicateId(c) \/ HasForkCycle(c)} :
       /\ messages = session.messages
       /\ messageForksHash = session.messageForksHash
  /\ treeUndoState = NoUndo
  /\ nextId = MaxCorruptId + 1
  /\ nextListId = 3
  /\ last = [op |-> "init", id |-> None, arg |-> None,
            pre |-> [messages |-> <<>>, messageForksHash |-> <<>>]]
  /\ QueueIdle
  /\ MultiModelInitial
  /\ sessionId = 1
  /\ otherSession = [id |-> 2, messages |-> <<>>, messageForksHash |-> <<>>]
  /\ nodePositions = NoPositions
  /\ dragCount = 0
  /\ currentNodes = NoPositions
  /\ pendingPositionSaveRef = NoPositions
  /\ timeoutId = FALSE
  /\ saveTimer = FALSE

\* MultiBranchIndicator handleDelete (second click): removeMessage
ListHandleDelete ==
  \E messageId \in 1..(nextId - 1) :
    /\ Commit(RemoveMessage(Session, messageId))
    /\ Record("removeMessage", messageId)
    /\ UNCHANGED <<treeUndoState, nextId, nextListId>>
    /\ UNCHANGED <<outsideStore, treeViewVars>>

NextCorrupt == ListHandleDelete

SpecCorrupt == InitCorrupt /\ [][NextCorrupt]_vars

\* ======================================================================
\* the tree view on a conversation whose fork entry has a position outside
\* 0..lists.length-1
\* ======================================================================

\* positions that designate no list of a two-list entry
BadPositions == {-1, 2}

\* well-formed one-fork conversations (fork point in session.messages, no id
\* stored twice) with the position replaced by one out of range
BadPositionSessions ==
  {[messages |-> c.messages,
    messageForksHash |-> <<[key |-> c.messageForksHash[1].key, position |-> pos,
                            lists |-> c.messageForksHash[1].lists]>>] :
     c \in {o \in OneForkSessions :
              /\ ~HasDuplicateId(o)
              /\ o.messageForksHash[1].position = 0
              /\ o.messageForksHash[1].key \in Range(o.messages)},
     pos \in BadPositions}

InitBadPosition ==
  /\ \E session \in BadPositionSessions :
       /\ messages = session.messages
       /\ messageForksHash = session.messageForksHash
  /\ treeUndoState = NoUndo
  /\ nextId = MaxCorruptId + 1
  /\ nextListId = 3
  /\ last = [op |-> "init", id |-> None, arg |-> None,
            pre |-> [messages |-> <<>>, messageForksHash |-> <<>>]]
  /\ QueueIdle
  /\ MultiModelInitial
  /\ ViewInit

NextBadPosition == DoInsertMessage

SpecBadPosition == InitBadPosition /\ [][NextBadPosition]_vars

\* ======================================================================
\* the tree view on stored conversations whose active list holds messages
\* ======================================================================

\* one-fork conversations as they can be stored: no id twice, the fork point
\* in session.messages, position designating a list
StoredOneForkSessions ==
  {o \in OneForkSessions :
     /\ ~HasDuplicateId(o)
     /\ o.messageForksHash[1].key \in Range(o.messages)}

InitStored ==
  /\ \E session \in StoredOneForkSessions :
       /\ messages = session.messages
       /\ messageForksHash = session.messageForksHash
  /\ treeUndoState = NoUndo
  /\ nextId = MaxCorruptId + 1
  /\ nextListId = 3
  /\ last = [op |-> "init", id |-> None, arg |-> None,
            pre |-> [messages |-> <<>>, messageForksHash |-> <<>>]]
  /\ QueueIdle
  /\ MultiModelInitial
  /\ ViewInit

NextStored ==
  \/ DoInsertMessage
  \/ NodeHandleDelete

SpecStored == InitStored /\ [][NextStored]_vars

\* ======================================================================
\* properties
\* ======================================================================

\* number of occurrences of id in a sequence
RECURSIVE Count(_, _)
Count(s, id) ==
  IF s = <<>> THEN 0 ELSE (IF Head(s) = id THEN 1 ELSE 0) + Count(Tail(s), id)

\* all stored sequences, flattened: primary first, then every list in order
RECURSIVE FlattenLists(_)
FlattenLists(lists) ==
  IF lists = <<>> THEN <<>> ELSE Head(lists).messages \o FlattenLists(Tail(lists))

RECURSIVE FlattenHash(_)
FlattenHash(hash) ==
  IF hash = <<>> THEN <<>> ELSE FlattenLists(Head(hash).lists) \o FlattenHash(Tail(hash))

Stored(session) == session.messages \o FlattenHash(session.messageForksHash)

UniqueIds(session) == \A id \in Range(Stored(session)) : Count(Stored(session), id) = 1

\* C1: after any sequence of insert / fork / switch / delete / undo
\* operations no message id occurs more than once across session.messages
\* and the lists of all fork entries.
C1_UniqueIds == UniqueIds(Session)

\* a conversation with stored branches, restored by undo after a delete
C1_Witness ==
  /\ last.op = "undo"
  /\ BranchIds(messageForksHash) # {}
  /\ Len(messageForksHash) = 2

\* ---- the last step was removeMessage(last.id), applied to Pre
IsRemove == last.op = "removeMessage"
Pre == last.pre

\* ---- the marked set of a cascading delete, as the operation is specified
SequencesOf(session) ==
  {session.messages} \cup
  UNION {{session.messageForksHash[i].lists[j].messages :
            j \in 1..Len(session.messageForksHash[i].lists)} :
         i \in 1..Len(session.messageForksHash)}

\* id and every message after it in the sequence that holds it
Downstream(session, id) ==
  UNION {Range(Slice(q, IndexOf(q, id), Len(q))) :
         q \in {r \in SequencesOf(session) : id \in Range(r)}}

\* ... and, transitively, all messages of all branches of marked fork points
RECURSIVE Cascade(_, _)
Cascade(session, set) ==
  LET hash == session.messageForksHash
      below == UNION {ListsIds(ForkOf(hash, f).lists) : f \in {m \in set : HasFork(hash, m)}}
  IN IF below \subseteq set THEN set ELSE Cascade(session, set \cup below)

Marked(session, id) == Cascade(session, Downstream(session, id))

Present(session, id) == id \in AllIds(session.messages, session.messageForksHash)

\* none of ids is stored in post, and no fork entry of post is keyed by one
Removed(post, ids) ==
  /\ ids \cap AllIds(post.messages, post.messageForksHash) = {}
  /\ ids \cap ForkKeys(post.messageForksHash) = {}

\* C2: removeMessage(id) on an id stored anywhere (primary sequence or any
\* branch, at any nesting depth) removes id, its linear downstream and the
\* whole subtree below: none of the marked ids is stored afterwards and no
\* fork entry is keyed by one of them.
C2_CascadeRemovesMarked ==
  (IsRemove /\ Present(Pre, last.id)) => Removed(Session, Marked(Pre, last.id))

\* ---- C3
IsInfix(a, r) == \E k \in 0..(Len(r) - Len(a)) : Slice(r, k, k + Len(a)) = a

\* C3: removeMessage(id) removes nothing outside the marked set: of every
\* stored sequence (primary or branch) the unmarked messages are still
\* stored afterwards, together and in their original order.
C3_UnmarkedPreserved ==
  IsRemove =>
    LET marked == Marked(Pre, last.id)
        after == SequencesOf(Session)
    IN \A q \in SequencesOf(Pre) :
         \/ Range(q) \subseteq marked
         \/ \E r \in after : IsInfix(FilterOut(q, marked), r)

\* a delete inside one branch of a fork point (not in the primary sequence)
\* whose sibling branch is stored before and after
C3_Witness ==
  /\ IsRemove
  /\ Present(Pre, last.id)
  /\ last.id \notin Range(Pre.messages)
  /\ ~Present(Session, last.id)
  /\ \E i \in 1..Len(messageForksHash) :
       \E j \in 1..Len(messageForksHash[i].lists) :
         /\ messageForksHash[i].lists[j].messages # <<>>
         /\ messageForksHash[i].lists[j].messages \in SequencesOf(Pre)

\* C4: removeMessage never applies partially: the returned session either has
\* every marked message and every fork entry keyed by one removed, or it is
\* the input session.
C4_AllOrNothing ==
  IsRemove => (Removed(Session, Marked(Pre, last.id)) \/ Session = Pre)

\* C5: removeMessage(id) for an id stored nowhere returns the session
\* unchanged, and removeMessage(id) applied a second time right after the
\* first returns what the first returned.
C5_AbsentNoOpAndIdempotent ==
  IsRemove =>
    /\ (~Present(Pre, last.id) => Session = Pre)
    /\ RemoveMessage(Session, last.id) = Session

\* ---- C6
\* the fork points F of Pre.messages with exactly two branches whose active
\* branch starts with the deleted message, as indices of F (1-based)
TwoBranchForkAt(session, id) ==
  {idx \in 1..(Len(session.messages) - 1) :
     /\ session.messages[idx + 1] = id
     /\ HasFork(session.messageForksHash, session.messages[idx])
     /\ Len(ForkOf(session.messageForksHash, session.messages[idx]).lists) = 2
     /\ ForkOf(session.messageForksHash, session.messages[idx]).position \in {0, 1}}

\* C6: deleting the first message of the active branch of a two-branch fork
\* point F removes that branch, puts the messages of the other branch into
\* the primary sequence directly after F and removes the fork entry at F.
C6_PromoteOnlySibling ==
  IsRemove =>
    \A idx \in TwoBranchForkAt(Pre, last.id) :
      LET F == Pre.messages[idx]
          e == ForkOf(Pre.messageForksHash, F)
          other == e.lists[2 - e.position].messages
      IN /\ Removed(Session, Marked(Pre, last.id))
         /\ ~HasFork(messageForksHash, F)
         /\ Len(messages) >= idx + Len(other)
         /\ Slice(messages, 0, idx + Len(other)) = Slice(Pre.messages, 0, idx) \o other

\* Scenario C: [S, U1, U2, A2] with [A1] stored at U1, delete U2
C6_Witness ==
  /\ IsRemove
  /\ last.id = 4
  /\ Pre.messages = <<1, 2, 4, 5>>
  /\ Len(Pre.messageForksHash) = 1
  /\ Pre.messageForksHash[1].key = 2
  /\ Pre.messageForksHash[1].position = 1
  /\ Pre.messageForksHash[1].lists[1].messages = <<3>>
  /\ messages = <<1, 2, 3>>
  /\ messageForksHash = <<>>

\* ---- C7
\* what is left of the primary sequence once the marked messages are gone
Kept(session, id) == FilterOut(session.messages, Marked(session, id))

\* the fork point the delete has made the last message of the primary
\* sequence: the last kept message has a fork entry (index of the entry, or {})
ExposedFork(session, id) ==
  {i \in 1..Len(session.messageForksHash) :
     /\ Kept(session, id) # <<>>
     /\ session.messageForksHash[i].key = Kept(session, id)[Len(Kept(session, id))]}

\* the lowest-index non-active branch of entry e that still has messages
Candidates(e, marked) ==
  {j \in 1..Len(e.lists) : j - 1 # e.position /\ FilterOut(e.lists[j].messages, marked) # <<>>}

LowestCandidate(e, marked) ==
  CHOOSE j \in Candidates(e, marked) : \A k \in Candidates(e, marked) : j <= k

HasSuccessor(session, id) ==
  \E q \in SequencesOf(session) : IndexOf(q, id) >= 0 /\ IndexOf(q, id) < Len(q) - 1

\* non-empty branches of entry e: stored messages, or the active slot whose
\* messages follow the fork point in the sequence that holds it
NonEmptyBranches(session, e) ==
  {j \in 1..Len(e.lists) :
     \/ e.lists[j].messages # <<>>
     \/ (j - 1 = e.position /\ HasSuccessor(session, e.key))}

WellForked(session) ==
  \A i \in 1..Len(session.messageForksHash) :
    LET e == session.messageForksHash[i]
    IN /\ e.position \in 0..(Len(e.lists) - 1)
       /\ Cardinality(NonEmptyBranches(session, e)) >= 2

\* C8: after removeMessage no fork entry, in the primary sequence or nested
\* in a stored branch, has fewer than two non-empty branches, and every
\* activeIndex is in range (for a delete applied to a session of which this
\* is true).
C8_NoDanglingFork ==
  (IsRemove /\ Present(Pre, last.id) /\ WellForked(Pre)) => WellForked(Session)

\* ---- C9
\* walk the primary sequence and, at each fork point, the active branch
RECURSIVE FollowActive(_, _)
FollowActive(session, set) ==
  LET hash == session.messageForksHash
      more == UNION {LET e == ForkOf(hash, f) IN
                       IF e.position + 1 \in 1..Len(e.lists)
                         THEN Range(e.lists[e.position + 1].messages) ELSE {} :
                     f \in {m \in set : HasFork(hash, m)}}
  IN IF more \subseteq set THEN set ELSE FollowActive(session, set \cup more)

ActiveWalk(session) == FollowActive(session, Range(session.messages))

Tree == SessionToConversationTree(Session)

\* C9: activePathIds of the tree is the set of ids met by walking the primary
\* sequence and following activeIndex at every fork point, and a node is
\* flagged isActivePath exactly when its id is in that set.
C9_ActivePathReconstructible ==
  /\ Tree.activePathIds = ActiveWalk(Session)
  /\ \A n \in 1..Len(Tree.nodes) :
       Tree.nodes[n].isActivePath <=> Tree.nodes[n].id \in Tree.activePathIds

\* right after a delete that promoted a branch and rewrote activeIndex of an
\* entry that still has a stored branch
C9_Witness ==
  /\ IsRemove
  /\ \E i \in 1..Len(messageForksHash) :
       /\ HasFork(Pre.messageForksHash, messageForksHash[i].key)
       /\ ForkOf(Pre.messageForksHash, messageForksHash[i].key).position
            # messageForksHash[i].position
       /\ ListsIds(messageForksHash[i].lists) # {}
       /\ Len(messages) > Len(Kept(Pre, last.id))

\* ---- C10
NodeIds(tree) == [n \in 1..Len(tree.nodes) |-> tree.nodes[n].id]

\* ids stored in a branch that is not the active one of its entry
InactiveIds(session) ==
  UNION {UNION {Range(session.messageForksHash[i].lists[j].messages) :
                  j \in {k \in 1..Len(session.messageForksHash[i].lists) :
                           k - 1 # session.messageForksHash[i].position}} :
         i \in 1..Len(session.messageForksHash)}

\* C10: the tree has exactly one node for every stored message (primary
\* sequence and all branches of all fork entries, nested ones included) and
\* the nodes of non-active branches are not on the active path.
C10_OneNodePerMessage ==
  /\ Range(NodeIds(Tree)) = Known
  /\ \A id \in Known : Count(NodeIds(Tree), id) = 1
  /\ \A n \in 1..Len(Tree.nodes) :
       Tree.nodes[n].id \in InactiveIds(Session) => ~Tree.nodes[n].isActivePath

\* Scenario A: [S, U1, U2, A2] with [A1] stored at U1: five nodes, only A1
\* off the active path
C10_Witness ==
  /\ messages = <<1, 2, 4, 5>>
  /\ Len(messageForksHash) = 1
  /\ messageForksHash[1].key = 2
  /\ messageForksHash[1].lists[1].messages = <<3>>
  /\ Len(Tree.nodes) = 5
  /\ {n \in 1..5 : ~Tree.nodes[n].isActivePath} = {3}
  /\ Tree.nodes[3].id = 3

\* ---- C11
\* C11: the updaters issued for one conversation run one at a time in issue
\* order, each on the conversation the previous one returned (the first on
\* the conversation as loaded), also when they are issued without awaiting
\* and when cache-only updates interleave.
C11_SerializedInIssueOrder ==
  /\ Len(applied) <= Len(issued)
  /\ sessionUpdateQueue.q = SubSeq(issued, Len(applied) + 1, Len(issued))
  /\ \A k \in 1..Len(applied) :
       /\ applied[k].updater = issued[k]
       /\ applied[k].input = (IF k = 1 THEN ForkedSession ELSE applied[k - 1].output)
       /\ applied[k].output = ApplyUpdater(issued[k], applied[k].input)

\* two deletes of one multi-select, the second run while the cache still
\* held the conversation from before the first, after a cache-only update
C11_Witness ==
  /\ Len(applied) = 2
  /\ applied[1].updater.op = "removeMessage"
  /\ applied[2].updater.op = "removeMessage"
  /\ applied[1].output # applied[1].input
  /\ applied[2].output # applied[2].input
  /\ Session = ForkedSession
  /\ cacheRev = 1
  /\ Len(pendingCache) = 2

\* ---- C12
\* the step is an undo() of the shown conversation
UndoIssued == last'.op = "undo" /\ last' # last

SlotHoldsShown == treeUndoState.present /\ treeUndoState.sessionId = sessionId

\* C12: undo() for the shown conversation c puts the slot's primarySequence
\* and forkIndex in place of c's and empties the slot when the slot holds a
\* snapshot of c; with an empty slot or a snapshot of another conversation
\* it changes no conversation and not the slot.  So an undo() right after a
\* successful one changes nothing.
C12_UndoRestoresOrNoOp ==
  [][UndoIssued =>
       /\ UNCHANGED <<sessionId, otherSession>>
       /\ IF SlotHoldsShown
            THEN /\ messages' = treeUndoState.messagesSnapshot
                 /\ messageForksHash' = treeUndoState.messageForksHashSnapshot
                 /\ treeUndoState' = NoUndo
            ELSE UNCHANGED <<messages, messageForksHash, treeUndoState>>]_vars

\* undo() issued while the slot holds a snapshot of the conversation that is
\* not shown: the forked conversation shown and the slot are as before
C12_Witness ==
  /\ last.op = "undo"
  /\ treeUndoState.present
  /\ treeUndoState.sessionId # sessionId
  /\ treeUndoState.messagesSnapshot # otherSession.messages
  /\ messageForksHash # <<>>

\* ---- C13
\* C13: every cascading delete, from whichever entry point, first stores in
\* the undo slot the shown conversation's primarySequence and forkIndex as
\* they are right before the delete; so after the delete the slot holds the
\* conversation the delete was applied to.
C13_DeleteSnapshotsFirst ==
  (IsRemove /\ Present(Pre, last.id)) => treeUndoState = UndoSnapshot(Pre)

\* ---- C14, C15
IsInsertAfter == last.op = "insertMessage" /\ last.arg # None

\* q with message placed right after targetId; q itself when targetId is not in q
InsertAfterIn(q, targetId, message) ==
  IF IndexOf(q, targetId) < 0 THEN q
  ELSE Slice(q, 0, IndexOf(q, targetId) + 1) \o <<message>>
         \o Slice(q, IndexOf(q, targetId) + 1, Len(q))

\* every sequence of the conversation taken through InsertAfterIn
InsertedAfter(session, targetId, message) ==
  [messages |-> InsertAfterIn(session.messages, targetId, message),
   messageForksHash |->
     [i \in 1..Len(session.messageForksHash) |->
        [session.messageForksHash[i] EXCEPT !.lists =
           [j \in 1..Len(@) |->
              [@[j] EXCEPT !.messages = InsertAfterIn(@, targetId, message)]]]]]

\* C14: insertAfter(targetId, message) puts message right after targetId in
\* the sequence holding targetId (primarySequence or the branch holding it)
\* and leaves every other message of every sequence where it was.
C14_InsertAfterInHoldingSequence ==
  (IsInsertAfter /\ Present(Pre, last.arg)) =>
    Session = InsertedAfter(Pre, last.arg, last.id)

\* C15: insertAfter(targetId, message) with a targetId stored in no sequence
\* has no effect: the conversation is unchanged and message is stored nowhere.
C15_InsertAfterAbsentTarget ==
  (IsInsertAfter /\ ~Present(Pre, last.arg)) =>
    (Session = Pre /\ ~Present(Session, last.id))

\* ---- C16
IsCreateFork == last.op = "createNewFork" /\ CanCreateFork(Pre, last.id)

TailAfter(q, id) == Slice(q, IndexOf(q, id) + 1, Len(q))

\* [S, U1] with the fork entry createFork(U1) makes on [S, U1, A1]
AfterCreateForkU1 ==
  [messages |-> <<1, 2>>,
   messageForksHash |-> <<[key |-> 2, position |-> 1,
                           lists |-> <<[id |-> 1, messages |-> <<3>>],
                                       [id |-> 2, messages |-> <<>>]>>]>>]

\* C16: createFork(atMessageId) moves the messages after atMessageId, ids and
\* order unchanged, into a branch of the fork entry at atMessageId (made if
\* absent) and cuts primarySequence after atMessageId; createFork(U1) and
\* insertAfter(U1, U2) on [S, U1, A1] give a fork entry at U1 with exactly
\* 2 branches, activeIndex on the new one, [A1] stored inactive and
\* primarySequence [S, U1, U2].
C16_CreateForkStoresTail ==
  /\ IsCreateFork =>
       LET e == ForkOf(messageForksHash, last.id)
           tail == TailAfter(Pre.messages, last.id)
       IN /\ messages = Slice(Pre.messages, 0, IndexOf(Pre.messages, last.id) + 1)
          /\ HasFork(messageForksHash, last.id)
          /\ \E j \in 1..Len(e.lists) : e.lists[j].messages = tail
          /\ Range(Stored(Session)) = Range(Stored(Pre))
          /\ UniqueIds(Pre) => UniqueIds(Session)
          /\ \A i \in 1..Len(Pre.messageForksHash) :
               Pre.messageForksHash[i].key # last.id =>
                 messageForksHash[i] = Pre.messageForksHash[i]
  /\ (IsInsertAfter /\ last.arg = 2 /\ Pre = AfterCreateForkU1) =>
       LET e == ForkOf(messageForksHash, 2)
       IN /\ messages = <<1, 2, last.id>>
          /\ Len(e.lists) = 2
          /\ e.position = 1
          /\ e.lists[1].messages = <<3>>
          /\ e.lists[2].messages = <<>>

\* createFork(U1) then insertAfter(U1, U2) on [S, U1, A1]
C16_Witness ==
  /\ IsInsertAfter
  /\ last.arg = 2
  /\ Pre = AfterCreateForkU1
  /\ Session = ForkedSession

\* ---- C17
Opposite(direction) == IF direction = "next" THEN "prev" ELSE "next"

\* a fork point of primarySequence whose entry has at least 2 branches
SwitchableAt(session, id) ==
  /\ id \in Range(session.messages)
  /\ HasFork(session.messageForksHash, id)
  /\ Len(ForkOf(session.messageForksHash, id).lists) >= 2

\* nothing to switch at id: no fork entry, or one with fewer than 2 branches
FewerThanTwoAt(session, id) ==
  HasFork(session.messageForksHash, id) => Len(ForkOf(session.messageForksHash, id).lists) < 2

\* Scenario A: [S, U1, U2, A2] with [A1] stored at U1
ScenarioA ==
  [messages |-> <<1, 2, 4, 5>>,
   messageForksHash |-> <<[key |-> 2, position |-> 1,
                           lists |-> <<[id |-> 1, messages |-> <<3>>],
                                       [id |-> 2, messages |-> <<>>]>>]>>]

SwitchedAsSpecified(pre, post, id, direction) ==
  LET e == ForkOf(pre.messageForksHash, id)
      f == ForkOf(post.messageForksHash, id)
      n == Len(e.lists)
      to == IF direction = "next" THEN (e.position + 1) % n ELSE (e.position + n - 1) % n
      head == Slice(pre.messages, 0, IndexOf(pre.messages, id) + 1)
  IN /\ HasFork(post.messageForksHash, id)
     /\ f.position = to
     /\ Len(f.lists) = n
     /\ f.lists[e.position + 1].messages = TailAfter(pre.messages, id)
     /\ post.messages = head \o e.lists[to + 1].messages
     /\ \A j \in 1..n : (j - 1 # e.position /\ j - 1 # to) => f.lists[j] = e.lists[j]
     /\ \A j \in 1..n : f.lists[j].id = e.lists[j].id
     /\ Len(post.messageForksHash) = Len(pre.messageForksHash)
     /\ \A i \in 1..Len(pre.messageForksHash) :
          pre.messageForksHash[i].key # id => post.messageForksHash[i] = pre.messageForksHash[i]

TreeIds == {RawTree.nodes[i].id : i \in 1..Len(RawTree.nodes)}
SavedIds == TreeIds \cap DOMAIN nodePositions
NewIds == TreeIds \ DOMAIN nodePositions
Placed == PositionsOf(LayoutedTree)

\* C18: layout with savedPositions returns for every node that has a saved
\* position exactly the saved coordinates, whatever was added or removed
\* elsewhere in the tree, and returns exactly the node ids of the input
\* tree, each once.
C18_SavedPositionsKept ==
  LET raw == RawTree
      layouted == ApplyTreeLayout(raw, nodePositions)
      placed == PositionsOf(layouted)
      ids == {raw.nodes[i].id : i \in 1..Len(raw.nodes)}
  IN /\ \A id \in ids \cap DOMAIN nodePositions : placed[id] = nodePositions[id]
     /\ Len(layouted) = Len(raw.nodes)
     /\ DOMAIN placed = ids
     /\ \A i, k \in 1..Len(layouted) : layouted[i].id = layouted[k].id => i = k

\* a dragged node keeps its place while nodes without a saved position are
\* laid out, after a delete elsewhere in the tree
C18_Witness ==
  /\ last.op = "removeMessage"
  /\ \E id \in SavedIds : nodePositions[id] \in DragSpots
  /\ NewIds # {}
  /\ DOMAIN nodePositions \ TreeIds # {}

\* C19: with the returned positions written back to the saved positions,
\* layout of the unchanged tree returns the same position for every node,
\* and so does every further repetition.
C19_NoDrift ==
  LET raw == RawTree
      placed == PositionsOf(ApplyTreeLayout(raw, nodePositions))
      saved2 == Merge(nodePositions, placed)
      again == PositionsOf(ApplyTreeLayout(raw, saved2))
      saved3 == Merge(saved2, again)
  IN /\ again = placed
     /\ saved3 = saved2

\* a saved parent with two children laid out in this pass
C19_Witness ==
  /\ SavedIds # {}
  /\ \E p \in SavedIds :
       /\ Len(ChildrenOf(RawTree.edges, p)) >= 2
       /\ Range(ChildrenOf(RawTree.edges, p)) \subseteq NewIds
  /\ Placed # nodePositions

\* the siblings of a new node that have a position when the node is placed:
\* those with a saved position and the new ones before it among the children
PositionedBefore(siblings, id, savedIds) ==
  {siblings[k] : k \in {j \in 1..Len(siblings) :
                          /\ siblings[j] # id
                          /\ \/ siblings[j] \in savedIds
                             \/ j < IndexOf(siblings, id) + 1}}

C21_PlacedEventuallySaved ==
  \A id \in 1..MaxMsgs :
    (id \in NewIds) ~> (id \in DOMAIN nodePositions \/ id \notin TreeIds)

\* ---- C22
\* C22: removeMessage on a conversation in which an id is stored twice or
\* a fork entry's branch holds its own fork point returns the conversation
\* unchanged.
C22_CorruptReturnedUnchanged ==
  (last.op = "removeMessage" /\ (HasDuplicateId(last.pre) \/ HasForkCycle(last.pre)))
    => Session = last.pre

\* ---- C23
\* the conversation with every out-of-range position replaced by 0
ClampPositions(session) ==
  [session EXCEPT !.messageForksHash =
     [i \in 1..Len(session.messageForksHash) |->
        LET e == session.messageForksHash[i]
        IN IF e.position \in 0..(Len(e.lists) - 1) THEN e
           ELSE [e EXCEPT !.position = 0]]]

OutOfRangeEntries(session) ==
  {i \in 1..Len(session.messageForksHash) :
     session.messageForksHash[i].position \notin
       0..(Len(session.messageForksHash[i].lists) - 1)}

\* C23: sessionToConversationTree of a conversation with a fork entry whose
\* position is out of range is the tree of the same conversation with that
\* position set to 0: same activePathIds, same isActivePath flags, same
\* activeLeafId.
C23_OutOfRangeAsZero ==
  OutOfRangeEntries(Session) # {} =>
    LET tree == SessionToConversationTree(Session)
        clamped == SessionToConversationTree(ClampPositions(Session))
    IN /\ tree.activePathIds = clamped.activePathIds
       /\ tree.nodes = clamped.nodes
       /\ tree.activeLeafId = clamped.activeLeafId

\* ---- C24
\* the last message of session.messages is a fork point whose active list
\* holds messages
LastIsForkWithActiveBranch(session) ==
  /\ session.messages # <<>>
  /\ HasFork(session.messageForksHash, session.messages[Len(session.messages)])
  /\ LET f == ForkOf(session.messageForksHash, session.messages[Len(session.messages)])
     IN /\ f.position \in 0..(Len(f.lists) - 1)
        /\ f.lists[f.position + 1].messages # <<>>

\* C24: activeLeafId is the last message of session.messages, or the last
\* message of the active list when that last message is a fork point whose
\* active list holds messages; rootId and activeLeafId are null, with no
\* nodes and no edges, exactly when the conversation has no messages;
\* otherwise activeLeafId is in activePathIds.
C24_ActiveLeaf ==
  LET tree == SessionToConversationTree(Session)
      lastMessage == messages[Len(messages)]
  IN /\ (messages = <<>>) <=> (tree.rootId = None /\ tree.activeLeafId = None)
     /\ (messages = <<>>) <=> (AllIds(messages, messageForksHash) = {})
     /\ messages = <<>> => tree.nodes = <<>> /\ tree.edges = <<>>
     /\ messages # <<>> =>
          /\ tree.rootId # None
          /\ tree.activeLeafId \in tree.activePathIds
          /\ tree.activeLeafId =
               IF LastIsForkWithActiveBranch(Session)
                 THEN LET f == ForkOf(messageForksHash, lastMessage)
                          activeBranch == f.lists[f.position + 1].messages
                      IN activeBranch[Len(activeBranch)]
                 ELSE lastMessage

\* after a delete the last message is a fork point whose active list holds
\* messages, and the leaf is the end of that list
C24_Witness ==
  /\ last.op = "removeMessage"
  /\ LastIsForkWithActiveBranch(Session)
  /\ SessionToConversationTree(Session).activeLeafId # messages[Len(messages)]

\* the conversation emptied by a delete
C24_EmptyReached == last.op = "removeMessage" /\ messages = <<>>

\* ---- C25
\* C25: the view works with the node width, node height and vertical
\* spacing of the layout engine: the point it centres on for a node is the
\* centre of the box layout reserves for the node, and the place it saves
\* for a node it creates below a trigger node is where layout puts an only
\* child of a node at the trigger's position.
C25_SameGeometry ==
  /\ \A id \in DOMAIN currentNodes :
       FocusCenter(currentNodes[id])
         = [x |-> currentNodes[id].x + NodeWidth \div 2,
            y |-> currentNodes[id].y + NodeHeight \div 2]
  /\ (last.op = "presaveNewNodePosition" /\ last.arg \in DOMAIN currentNodes) =>
       nodePositions[last.id]
         = [x |-> currentNodes[last.arg].x,
            y |-> currentNodes[last.arg].y + NodeHeight + VerticalSpacing]

\* ---- C26
\* C26: once every update issued for the conversation has completed (nothing
\* waits in the queue, no _setSessionCache is still to run), the cached
\* session is the output of the last updater the queue applied, function
\* updaters and plain-object updaters mixed.
C26_CacheHoldsLastApplied ==
  (applied # <<>> /\ sessionUpdateQueue.q = <<>> /\ pendingCache = <<>>) =>
    Session = applied[Len(applied)].output

\* ---- C27
\* forkIndex as the map it is: fork point -> (active index, branches)
ForkIndexOf(session) ==
  [k \in {session.messageForksHash[i].key : i \in 1..Len(session.messageForksHash)} |->
     LET e == session.messageForksHash[CHOOSE i \in 1..Len(session.messageForksHash) :
                                         session.messageForksHash[i].key = k]
     IN [position |-> e.position, lists |-> e.lists]]

SameConversation(s, t) ==
  /\ s.messages = t.messages
  /\ ForkIndexOf(s) = ForkIndexOf(t)

RemoveBoth(session, a, b) == RemoveMessage(RemoveMessage(session, a), b)

\* C27: for any two ids a and b of a reachable conversation, removing a and
\* then b gives the same primary sequence and fork index as removing b and
\* then a, and neither a nor b is left in the conversation.
C27_DeletesCommute ==
  \A a \in Known : \A b \in Known :
    /\ SameConversation(RemoveBoth(Session, a, b), RemoveBoth(Session, b, a))
    /\ ~Present(RemoveBoth(Session, a, b), a)
    /\ ~Present(RemoveBoth(Session, a, b), b)

\* ---- C28
\* the same fork entries, inserted in another order
Reorderings(hash) ==
  {[i \in 1..Len(hash) |-> hash[p[i]]] : p \in Permutations(1..Len(hash))}

\* C28: the conversation removeWithCascade returns does not depend on the
\* order in which the fork entries are enumerated: a conversation that
\* differs from this one only in the insertion order of its fork entries
\* gives the same primary sequence and the same fork entries after the same
\* delete.
C28_EntryOrderIrrelevant ==
  \A id \in Known : \A hash \in Reorderings(messageForksHash) :
    SameConversation(RemoveMessage([messages |-> messages, messageForksHash |-> hash], id),
                     RemoveMessage(Session, id))

\* ---- C29
IncomingEdges(tree, id) == {k \in 1..Len(tree.edges) : tree.edges[k].target = id}

EmittedIds(tree) == {tree.nodes[n].id : n \in 1..Len(tree.nodes)}

\* C29: the edges of the rendered tree form a tree rooted at rootId: rootId
\* is the first message of the primary sequence, is emitted and has no
\* incoming edge; every other node has exactly one incoming edge and its
\* source is an emitted node; no id is emitted twice; every edge goes one
\* level down.
C29_EdgesFormTree ==
  messages # <<>> =>
    LET tree == Tree
        ids == EmittedIds(tree)
        depth == [id \in ids |-> DepthOf(tree, id)]
    IN /\ tree.rootId = messages[1]
       /\ tree.rootId \in ids
       /\ IncomingEdges(tree, tree.rootId) = {}
       /\ \A n, m \in 1..Len(tree.nodes) : tree.nodes[n].id = tree.nodes[m].id => n = m
       /\ \A id \in ids \ {tree.rootId} : Cardinality(IncomingEdges(tree, id)) = 1
       /\ \A k \in 1..Len(tree.edges) :
            /\ tree.edges[k].source \in ids
            /\ tree.edges[k].target \in ids
            /\ depth[tree.edges[k].target] = depth[tree.edges[k].source] + 1

\* C29 witness: a tree with a fork below the root level whose inactive
\* branch holds a fork point of its own (a nested fork was walked)
C29_Witness ==
  LET tree == Tree
  IN /\ C29_EdgesFormTree
     /\ \E k, j \in 1..Len(tree.edges) :
          /\ tree.edges[k].branchIndex # tree.edges[j].branchIndex
          /\ tree.edges[k].source = tree.edges[j].source
          /\ tree.edges[k].source \notin Range(messages)
          /\ DepthOf(tree, tree.edges[k].source) >= 1

\* ---- C30
\* C30: selectedModels never holds more than maxModels entries and never two
\* entries with the same (provider, modelId) pair.
C30_AtMostMaxNoDuplicates ==
  /\ Len(selectedModels) <= maxModels
  /\ \A i, j \in 1..Len(selectedModels) :
       (/\ selectedModels[i].provider = selectedModels[j].provider
        /\ selectedModels[i].modelId = selectedModels[j].modelId) => i = j
====
